---------------------------- MODULE Spec2Model ----------------------------
(***************************************************************************)
(* Model of the podman-lamp provisioning scripts:                          *)
(*   src/setup.py                 container stack, backup, restore         *)
(*   src/install_ubuntu_vm.py     VirtualBox VM creator                    *)
(*   src/install_ubuntu_hyperv.py Hyper-V VM creator                       *)
(*                                                                         *)
(* Every call site of an external command is a "site" (a short string).    *)
(* A function of the scripts is one action: it draws the set F of its      *)
(* sites that return a non-zero exit code, computes the sequence of sites  *)
(* the code issues under F, and appends it to the command log.  Commands   *)
(* are assumed launchable (an executable that cannot be launched at all    *)
(* raises an error that the runners do not handle; that is outside the     *)
(* model).  The host scheduler is a faithful store: "crontab -l" fails     *)
(* exactly when the user has no crontab, and "crontab -" replaces it.      *)
(***************************************************************************)
EXTENDS Integers, Sequences, FiniteSets, TLC

VARIABLES
    cron,       \* host schedule: [exists |-> BOOLEAN, lines |-> Seq(line)]
    cron0,      \* the host schedule at system start (never changes)
    calls,      \* per-function count of completed calls / complete installs
    now,        \* host clock, in ticks since 2024-01-01 00:00:00
    ticks,      \* number of clock advances so far
    rootExists, \* whether /opt/podman-backups exists
    entries,    \* directory entries of the backup root
    bk,         \* report of the last run of the backup script (none since the process started: NoReport)
    rs,         \* report of the last call of restore_backup (none since the process started: NoRestoreReport)
    res,        \* how many containers / VMs of each name the host holds
    ret,        \* report of the last direct call of a command runner (none: NoReturn)
    script,     \* which script is running: "none", "setup", "vbox", "hyperv"
    pc,         \* position in main()
    args,       \* command-line arguments of the run
    env,        \* host facts the prerequisite checks read
    log,        \* sites issued so far in this run, in order
    failed,     \* sites of this run that returned a non-zero exit code
    exitCode,   \* -1 while running, else the process exit code
    stopAt,     \* the check that called sys.exit, or "none"
    steps,      \* the functions main() has called in this run, in order
    loc         \* locals of main(): has_ssl, unattended_success

vars == <<cron, cron0, calls, now, ticks, rootExists, entries, bk, rs, res, ret,
          script, pc, args, env, log, failed, exitCode, stopAt, steps, loc>>

hostButRes == <<cron, cron0, calls, now, ticks, rootExists, entries, bk, rs, ret>>
hostVars == <<hostButRes, res>>
runVars  == <<script, pc, args, env, log, failed, exitCode, stopAt, steps, loc>>

-----------------------------------------------------------------------------
(* Bounds of the model.                                                    *)

\* at most this many commands return non-zero in one run / one call
MaxFail == 1
\* at most this many function calls (or complete installs) per function
MaxCalls == 2
\* at most this many lines in the schedule the system starts with
MaxCronLen == 2
\* clock resolution: ticks per day
TicksPerDay == 2
\* at most this many clock advances
MaxTicks == 4
\* the backup script does not run when the root already holds this many records
MaxRecords == 2

-----------------------------------------------------------------------------
(* Generic helpers.                                                        *)

Range(s) == {s[i] : i \in DOMAIN s}

IndexOf(s, x) == IF x \in Range(s) THEN CHOOSE i \in DOMAIN s : s[i] = x ELSE 0

\* x occurs in s and is issued before y (or y is not issued at all)
Before(s, x, y) == x \in Range(s) /\ (y \in Range(s) => IndexOf(s, x) < IndexOf(s, y))

Count(s, P(_)) == Cardinality({i \in DOMAIN s : P(s[i])})

Opt(c, s) == IF c THEN s ELSE <<>>

\* the subsets of S with at most k elements
RECURSIVE UpTo(_, _)
UpTo(S, k) == IF k = 0 THEN {{}}
              ELSE UpTo(S, k - 1) \cup {F \cup {x} : F \in UpTo(S, k - 1), x \in S}

\* the sets of commands of S that may fail together in one run
FailSets(S) == UpTo(S, MaxFail)

-----------------------------------------------------------------------------
(* The command runners.  rc is the exit code of the launched command.      *)

\* subprocess.run(cmd, capture_output=True, text=True, check=check) for a
\* command that is launched, exits with code rc and writes out and err: with
\* check it raises CalledProcessError on a non-zero code, and the exception
\* carries the code and both captured streams.
subprocess_run(rc, out, err, check) ==
    [raises |-> IF check /\ rc # 0 THEN "CalledProcessError" ELSE "none",
     returncode |-> rc, stdout |-> out, stderr |-> err]

\* (variant: no except clause, the error of subprocess.run leaves the runner)
run_command_returns_uncaught(rc, out, err, check) ==
    LET r == subprocess_run(rc, out, err, check)
    IN  [success |-> r.returncode = 0 /\ r.raises = "none",
         stdout |-> r.stdout, stderr |-> r.stderr, raised |-> r.raises # "none"]

\* setup.py:9-17  what the runner hands back: the triple (success, stdout,
\* stderr); raised: an exception leaves the runner.  The except clause
\* catches CalledProcessError and returns (False, e.stdout, e.stderr).
run_command_returns(rc, out, err, check) ==
    LET r == subprocess_run(rc, out, err, check)
    IN  IF r.raises = "CalledProcessError"
        THEN [success |-> FALSE, stdout |-> r.stdout, stderr |-> r.stderr, raised |-> FALSE]
        ELSE [success |-> r.returncode = 0, stdout |-> r.stdout, stderr |-> r.stderr,
              raised |-> FALSE]

\* install_ubuntu_vm.py:10-19  the same try/except around subprocess.run
vbox_run_command_returns(rc, out, err, check) ==
    LET r == subprocess_run(rc, out, err, check)
    IN  IF r.raises = "CalledProcessError"
        THEN [success |-> FALSE, stdout |-> r.stdout, stderr |-> r.stderr, raised |-> FALSE]
        ELSE [success |-> r.returncode = 0, stdout |-> r.stdout, stderr |-> r.stderr,
              raised |-> FALSE]

\* install_ubuntu_hyperv.py:9-25  the same, through powershell -Command
hyperv_run_command_returns(rc, out, err, check) ==
    LET r == subprocess_run(rc, out, err, check)
    IN  IF r.raises = "CalledProcessError"
        THEN [success |-> FALSE, stdout |-> r.stdout, stderr |-> r.stderr, raised |-> FALSE]
        ELSE [success |-> r.returncode = 0, stdout |-> r.stdout, stderr |-> r.stderr,
              raised |-> FALSE]

run_command_fatal(rc, check) == [success |-> rc = 0, raised |-> check /\ rc # 0]

\* What the steps of the scripts act on: the success flag of the call and
\* whether the call raises (the same as in the records above, whatever the
\* command writes).
\* setup.py: subprocess.run(..., check=check) raises CalledProcessError on a
\* non-zero exit code; the except clause returns (False, stdout, stderr).
run_command(rc, check) == [success |-> rc = 0, raised |-> FALSE]

\* install_ubuntu_vm.py: the same try/except around subprocess.run.
vbox_run_command(rc, check) == [success |-> rc = 0, raised |-> FALSE]

\* install_ubuntu_hyperv.py: the same, through powershell -Command.
hyperv_run_command(rc, check) == [success |-> rc = 0, raised |-> FALSE]

\* Sites of setup.py, by function.
PodmanSites   == {"pod.which", "pod.update", "pod.install", "pod.version"}
CertbotSites  == {"cb.which", "cb.update", "cb.install"}
SocketSites   == {"sock.enable"}
NetworkSites  == {"net.exists", "net.create"}
MysqlSites    == {"my.stop", "my.rm", "my.run", "my.gensd", "my.mv", "my.reload", "my.enable"}
SslSites      == {"ssl.stop", "ssl.certbot", "ssl.cp_chain", "ssl.cp_key", "ssl.chmod"}
ApacheSites   == {"ap.stop", "ap.rm", "ap.run_ssl", "ap.cron_l", "ap.cron_w", "ap.run_http",
                  "ap.gensd", "ap.mv", "ap.reload", "ap.enable"} \cup SslSites
PmaSites      == {"pma.stop", "pma.rm", "pma.run", "pma.gensd", "pma.mv", "pma.reload", "pma.enable"}
BackupSites   == {"bk.chmod", "bk.cron_l", "bk.cron_w", "bk.run"}
RestoreSites  == {"rs.stop_mysql", "rs.stop_apache", "rs.start_mysql", "rs.load",
                  "rs.tar_www", "rs.tar_ssl", "rs.restart_mysql", "rs.restart_apache"}

\* Sites of install_ubuntu_vm.py.
VBoxSites == {"vb.version", "vb.showvminfo", "vb.unregistervm", "vb.createvm", "vb.modifyvm",
              "vb.cfgfile", "vb.storagectl", "vb.createmedium", "vb.attach_hdd", "vb.attach_iso",
              "vb.unattended", "vb.autostart_on", "vb.autostart_delay", "vb.startvm"}

\* Sites of install_ubuntu_hyperv.py.
HyperVSites == {"hv.isadmin", "hv.getfeature", "hv.enablefeature", "hv.getvm", "hv.stopvm",
                "hv.removevm", "hv.newvm", "hv.setvm_cpu", "hv.setvm_checkpoint", "hv.nested",
                "hv.newvhd", "hv.addscsi", "hv.addhdd", "hv.adddvd", "hv.bootorder",
                "hv.secureboot", "hv.getswitch", "hv.getadapter", "hv.newswitch_ext",
                "hv.newswitch_int", "hv.addadapter", "hv.startvm", "hv.vmconnect"}

\* Sites started with subprocess.Popen: no runner, the exit code is never read.
PopenSites == {"ap.cron_w", "bk.cron_w", "rs.load"}

\* Sites whose run_command call passes check=False.
TolerantSites ==
    {"pod.which", "cb.which", "net.exists", "my.stop", "my.rm", "ssl.stop", "ssl.certbot",
     "ap.stop", "ap.rm", "ap.cron_l", "pma.stop", "pma.rm", "bk.cron_l", "bk.run",
     "rs.stop_mysql", "rs.stop_apache", "rs.start_mysql",
     "vb.version", "vb.showvminfo", "vb.unregistervm", "vb.unattended",
     "hv.getfeature", "hv.getvm", "hv.stopvm", "hv.removevm", "hv.nested", "hv.addscsi",
     "hv.getswitch", "hv.newswitch_ext", "hv.vmconnect"}

AllSites == PodmanSites \cup CertbotSites \cup SocketSites \cup NetworkSites \cup MysqlSites
            \cup ApacheSites \cup PmaSites \cup BackupSites \cup RestoreSites
            \cup VBoxSites \cup HyperVSites

\* Sites that go through run_command with check=True (the default).
FatalSites == AllSites \ (TolerantSites \cup PopenSites)

\* Sites that only read (queries and privilege / presence probes).
QuerySites == {"pod.which", "pod.version", "cb.which", "net.exists", "ap.cron_l", "bk.cron_l",
               "vb.version", "vb.showvminfo", "vb.cfgfile",
               "hv.isadmin", "hv.getfeature", "hv.getvm", "hv.getswitch", "hv.getadapter"}

\* Sites that create, modify or remove a VM, container, network, backup or
\* schedule entry.
MutatingSites == AllSites \ (QuerySites \cup {"pod.update", "pod.install", "cb.update",
                                              "cb.install", "hv.enablefeature"})

Rc(s, F) == IF s \in F THEN 1 ELSE 0

\* Whether the call at site s raises out of the runner R.
Raises(s, F, R(_, _)) == s \notin PopenSites /\ R(Rc(s, F), s \in FatalSites).raised

RunnerOf(s) == IF s \in VBoxSites THEN "vbox" ELSE IF s \in HyperVSites THEN "hyperv" ELSE "setup"

SiteRaises(s, F) ==
    CASE RunnerOf(s) = "vbox"   -> Raises(s, F, vbox_run_command)
      [] RunnerOf(s) = "hyperv" -> Raises(s, F, hyperv_run_command)
      [] OTHER                  -> Raises(s, F, run_command)

RaisedAt(tr, F) == {i \in DOMAIN tr : SiteRaises(tr[i], F)}

Min(S) == CHOOSE x \in S : \A y \in S : x <= y
Max(S) == CHOOSE x \in S : \A y \in S : x >= y

\* The part of the trace tr that is issued: all of it unless a call raises.
Issued(tr, F) == IF RaisedAt(tr, F) = {} THEN tr ELSE SubSeq(tr, 1, Min(RaisedAt(tr, F)))

Aborted(tr, F) == RaisedAt(tr, F) # {}

-----------------------------------------------------------------------------
(* The host schedule.  A schedule text is the sequence of its lines (the   *)
(* text split at "\n"); a line is the sequence of its tokens.  A line is    *)
(* cut so that every occurrence of the script's file name is a token of    *)
(* its own: the name occurs in the text exactly when it is one of the      *)
(* tokens.                                                                 *)

ScriptName == "podman-lamp-backup.sh"
ScriptDir  == "/usr/local/bin/"

\* setup.py:340  backup_cron
backup_cron == <<"0 2 * * * ", ScriptDir, ScriptName, " >> /var/log/podman-backup.log 2>&1">>

\* setup.py:213  renewal_cmd
renewal_cmd(domain) == <<"0 3 * * * ", "certbot renew --quiet --deploy-hook ", domain>>

Blank      == <<>>
OtherJob   == <<"15 4 * * * ", "/usr/bin/updatedb">>
NoteLine   == <<"# ", "disabled: ", ScriptDir, ScriptName>>
\* an active line of another command that names the script
ProbeJob   == <<"30 1 * * * ", "/usr/bin/test -x ", ScriptDir, ScriptName>>

\* (variant: only an active entry that runs the script counts as present)
Mentions_active_entry(text) ==
    \E i \in DOMAIN text :
        /\ Len(text[i]) >= 3 /\ text[i][1] # "# "
        /\ text[i][2] = ScriptDir /\ text[i][3] = ScriptName

NoCrontab == [exists |-> FALSE, lines |-> <<>>]

\* "crontab -l": (success, stdout); no crontab for the user is exit code 1.
crontab_l(c) == [success |-> c.exists, out |-> IF c.exists THEN c.lines ELSE <<Blank>>]

\* "crontab -" fed with text: the text replaces the user's schedule.
crontab_write(text) == [exists |-> TRUE, lines |-> text]

\* text + "\n" + line
AddLine(text, line) == Append(text, line)

\* the test made against another file name
Mentions_other_name(text) ==
    \E i \in DOMAIN text : \E j \in DOMAIN text[i] : text[i][j] = "podman-backup.sh"

\* the Python test  "podman-lamp-backup.sh" in text
Mentions(text) == \E i \in DOMAIN text : \E j \in DOMAIN text[i] : text[i][j] = ScriptName

IsComment(line) == Len(line) > 0 /\ line[1] = "# "

\* an active schedule line whose command is the backup script
InvokesBackup(line) ==
    /\ Len(line) >= 3
    /\ ~IsComment(line)
    /\ line[2] = ScriptDir /\ line[3] = ScriptName

\* an active schedule line whose command is certificate renewal
InvokesRenewal(line) == Len(line) >= 2 /\ ~IsComment(line) /\ line[2] = "certbot renew --quiet --deploy-hook "

BackupEntries(c)  == Count(c.lines, InvokesBackup)
RenewalEntries(c) == Count(c.lines, InvokesRenewal)

-----------------------------------------------------------------------------
(* setup.py: the sites each function issues, given the set F of sites that *)
(* return non-zero.                                                        *)

check_install_podman_trace(F) ==
    IF "pod.which" \in F THEN <<"pod.which", "pod.update", "pod.install">>
                         ELSE <<"pod.which", "pod.version">>

install_certbot_trace(domain, F) ==
    IF domain = "" THEN <<>>
    ELSE <<"cb.which">> \o Opt("cb.which" \in F, <<"cb.update", "cb.install">>)

enable_podman_socket_trace == <<"sock.enable">>

create_network_trace(F) == <<"net.exists">> \o Opt("net.exists" \in F, <<"net.create">>)

\* (variant: the container is created before the old one is stopped and removed)
setup_mysql_trace_create_first ==
    <<"my.run", "my.stop", "my.rm", "my.gensd", "my.mv", "my.reload", "my.enable">>

\* setup.py:75-105
setup_mysql_trace == <<"my.stop", "my.rm", "my.run", "my.gensd", "my.mv", "my.reload", "my.enable">>

\* live: /etc/letsencrypt/live/<domain> is a directory after certbot ran
obtain_ssl_certificate(F, live) == "ssl.certbot" \notin F /\ live

obtain_ssl_certificate_trace(F, live) ==
    <<"ssl.stop", "ssl.certbot">>
    \o Opt(obtain_ssl_certificate(F, live), <<"ssl.cp_chain", "ssl.cp_key", "ssl.chmod">>)

\* SSL whenever a domain is given, whatever became of the certificate
setup_apache_has_ssl_any(domain, F, live) == domain # ""

\* the value setup_apache returns
setup_apache_has_ssl(domain, F, live) == domain # "" /\ obtain_ssl_certificate(F, live)

setup_apache_trace(domain, F, live) ==
    <<"ap.stop", "ap.rm">>
    \o Opt(domain # "", obtain_ssl_certificate_trace(F, live))
    \o (IF setup_apache_has_ssl(domain, F, live)
        THEN <<"ap.run_ssl", "ap.cron_l", "ap.cron_w">>
        ELSE <<"ap.run_http">>)
    \o <<"ap.gensd", "ap.mv", "ap.reload", "ap.enable">>

\* the schedule replaced by the renewal entry alone
setup_apache_new_cron_alone(c, domain) == <<renewal_cmd(domain)>>

\* the schedule text setup_apache hands to "crontab -"
setup_apache_new_cron(c, domain) ==
    IF crontab_l(c).success THEN AddLine(crontab_l(c).out, renewal_cmd(domain))
                            ELSE <<renewal_cmd(domain)>>

setup_phpmyadmin_trace ==
    <<"pma.stop", "pma.rm", "pma.run", "pma.gensd", "pma.mv", "pma.reload", "pma.enable">>

\* setup.py:355  whether setup_backup rewrites the schedule
setup_backup_writes(c) == ~Mentions(IF crontab_l(c).success THEN crontab_l(c).out ELSE <<Blank>>)

\* setup.py:343-352  the schedule text setup_backup computes
setup_backup_new_cron(c) ==
    IF crontab_l(c).success
    THEN IF ~Mentions(crontab_l(c).out) THEN AddLine(crontab_l(c).out, backup_cron)
                                       ELSE crontab_l(c).out
    ELSE <<backup_cron>>

setup_backup_trace(c) ==
    <<"bk.chmod", "bk.cron_l">> \o Opt(setup_backup_writes(c), <<"bk.cron_w">>) \o <<"bk.run">>

-----------------------------------------------------------------------------
(* The backup script that setup_backup writes (setup.py:294-328).          *)

\* setup.py:299  RETENTION_DAYS=30
RETENTION_DAYS == 30

IsLeap(y) == (y % 4 = 0 /\ y % 100 # 0) \/ y % 400 = 0

DaysInYear(y) == IF IsLeap(y) THEN 366 ELSE 365

DaysInMonth(y, m) ==
    IF m = 2 THEN (IF IsLeap(y) THEN 29 ELSE 28)
    ELSE IF m \in {4, 6, 9, 11} THEN 30 ELSE 31

RECURSIVE YearOf(_, _)
YearOf(y, d) == IF d < DaysInYear(y) THEN [year |-> y, doy |-> d]
                ELSE YearOf(y + 1, d - DaysInYear(y))

RECURSIVE MonthOf(_, _, _)
MonthOf(y, m, d) == IF d < DaysInMonth(y, m) THEN [month |-> m, day |-> d + 1]
                    ELSE MonthOf(y, m + 1, d - DaysInMonth(y, m))

\* the broken-down local time of clock value t (ticks since 2024-01-01 00:00:00)
LocalTime(t) ==
    LET d   == t \div TicksPerDay
        sod == ((t % TicksPerDay) * 86400) \div TicksPerDay
        yd  == YearOf(2024, d)
        md  == MonthOf(yd.year, 1, yd.doy)
    IN  [year |-> yd.year, month |-> md.month, day |-> md.day,
         hour |-> sod \div 3600, minute |-> (sod % 3600) \div 60, second |-> sod % 60]

\* characters are their code points: "0" is 48, "_" is 95, "a" is 97
RECURSIVE ToDigits(_)
ToDigits(n) == IF n < 10 THEN <<48 + n>> ELSE Append(ToDigits(n \div 10), 48 + (n % 10))

Pad2(n) == <<48 + (n \div 10), 48 + (n % 10)>>

\* date +%d%m%Y_%H%M%S
DateStamp_dmy(t) ==
    LET lt == LocalTime(t)
    IN  Pad2(lt.day) \o Pad2(lt.month) \o ToDigits(lt.year) \o <<95>>
        \o Pad2(lt.hour) \o Pad2(lt.minute) \o Pad2(lt.second)

\* date +%Y%m%d_%H%M%S
DateStamp(t) ==
    LET lt == LocalTime(t)
    IN  ToDigits(lt.year) \o Pad2(lt.month) \o Pad2(lt.day) \o <<95>>
        \o Pad2(lt.hour) \o Pad2(lt.minute) \o Pad2(lt.second)

\* "backup_"
BackupPrefix == <<98, 97, 99, 107, 117, 112, 95>>

\* setup.py:297-298  backup_$DATE
BackupName(t) == BackupPrefix \o DateStamp(t)

\* str.startswith
StartsWith(name, prefix) ==
    Len(name) >= Len(prefix) /\ SubSeq(name, 1, Len(prefix)) = prefix

\* Python's order on str: code point by code point, a proper prefix first
RECURSIVE LexLess(_, _)
LexLess(a, b) ==
    IF b = <<>> THEN FALSE
    ELSE IF a = <<>> THEN TRUE
    ELSE IF Head(a) # Head(b) THEN Head(a) < Head(b)
    ELSE LexLess(Tail(a), Tail(b))

\* sorted(names)[-1]
LexMax(names) == CHOOSE x \in names : \A y \in names : y = x \/ LexLess(y, x)

DumpFile == "mysql_dump.sql"
WwwFile  == "apache_www.tar.gz"
SslFile  == "ssl_certs.tar.gz"
ConfigFiles == {"mysql_config.json", "apache_config.json", "phpmyadmin_config.json"}

\* the file each step of the backup script writes
StepFile(step) ==
    CASE step = "dump"       -> DumpFile
      [] step = "www"        -> WwwFile
      [] step = "ssl"        -> SslFile
      [] step = "cfg_mysql"  -> "mysql_config.json"
      [] step = "cfg_apache" -> "apache_config.json"
      [] step = "cfg_pma"    -> "phpmyadmin_config.json"

ArtifactSteps == {"dump", "www", "ssl", "cfg_mysql", "cfg_apache", "cfg_pma"}

\* steps whose output file is opened by the shell (">") before the command runs
RedirectSteps == {"dump", "cfg_mysql", "cfg_apache", "cfg_pma"}

backup_script_errexit_set == TRUE

\* the script sets no "set -e": a failing command does not end it
backup_script_errexit == FALSE

\* steps that end the script when they fail under errexit (no "|| true")
UnguardedSteps == {"mkdir", "dump", "www"}

\* setup.py:301-325  the commands of the script, in order; certs: whether
\* /opt/apache-ssl/certs is a directory
backup_script_steps(certs) ==
    <<"mkdir", "dump", "www">> \o Opt(certs, <<"ssl">>)
    \o <<"cfg_mysql", "cfg_apache", "cfg_pma", "find">>

\* the steps that run, given the set S of failing steps
backup_script_executed(certs, S) ==
    LET st   == backup_script_steps(certs)
        stop == {i \in DOMAIN st : backup_script_errexit /\ st[i] \in S \cap UnguardedSteps}
    IN  IF stop = {} THEN st ELSE SubSeq(st, 1, Min(stop))

\* (variant: every record matches, whatever its age)
find_mtime_plus_any(e, t, n) == ((t - e.mtime) \div TicksPerDay) >= 0

\* find -mtime +N: the age in whole days (fraction dropped) is greater than N
find_mtime_plus(e, t, n) == ((t - e.mtime) \div TicksPerDay) > n

\* find "$BACKUP_DIR" -type d -name "backup_*" -mtime +$RETENTION_DAYS
find_matches(e, t) ==
    e.isDir /\ StartsWith(e.name, BackupPrefix) /\ find_mtime_plus(e, t, RETENTION_DAYS)

\* the sets of steps of the script that are tried as failing
StepFailures == FailSets({"mkdir", "dump", "www", "ssl", "cfg_mysql", "cfg_apache",
                         "cfg_pma", "find"})

\* One run of the script at time t.  S0: steps that fail on their own;
\* left: a failed tar leaves its archive file behind.
backup_script(ents, root, t, S0, certs, left) ==
    LET name   == BackupName(t)
        old    == {e \in ents : e.name = name}
        dirOK  == (\E e \in old : e.isDir) \/ ("mkdir" \notin S0 /\ old = {})
        S      == IF dirOK THEN S0 ELSE S0 \cup ArtifactSteps
        ran    == backup_script_executed(certs, S)
        wrote  == {StepFile(s) : s \in {x \in Range(ran) \cap ArtifactSteps :
                                     dirOK /\ (x \in RedirectSteps \/ x \notin S \/ left)}}
        oldf   == UNION {e.files : e \in old}
        born   == IF old = {} THEN t ELSE Min({e.born : e \in old})
        rec    == [name |-> name, isDir |-> TRUE, mtime |-> t, born |-> born,
                   files |-> oldf \cup wrote, by |-> "script"]
        made   == IF dirOK /\ "mkdir" \in Range(ran) THEN (ents \ old) \cup {rec} ELSE ents
        gone   == IF "find" \in Range(ran) THEN {e \in made : find_matches(e, t)} ELSE {}
    IN  [entries |-> made \ gone,
         root    |-> root \/ (dirOK /\ "mkdir" \in Range(ran)),
         report  |-> [ran |-> ran, failing |-> S \cap Range(ran), own |-> S0, name |-> name,
                      certs |-> certs, before |-> made, removed |-> gone, at |-> t]]

-----------------------------------------------------------------------------
(* setup.py: restore_backup.                                               *)

\* setup.py:506, 513-517  --restore without a value: restore_backup() is called
\* with backup_path = None
Latest == [kind |-> "latest", isDir |-> FALSE, files |-> {}]

\* --restore "": the empty string is the path; os.path.isdir("") is False
EmptyPath == [kind |-> "empty", isDir |-> FALSE, files |-> {}]

\* setup.py:426  `not backup_path`: true of None and of the empty string
NoPathGiven(p) == p.kind \in {"latest", "empty"}

\* an explicit BACKUP_PATH argument: what the path is on the host
Explicit(isDir, files) == [kind |-> "explicit", isDir |-> isDir, files |-> files]

\* the names restore_backup lists: os.listdir entries that start with "backup_"
restore_backup_candidates(ents) == {e.name : e \in {x \in ents : StartsWith(x.name, BackupPrefix)}}

\* a selection that turns down a record without the content archive
restore_backup_resolve_complete(ents, root, p) ==
    IF p.kind = "latest" /\ root /\ restore_backup_candidates(ents) # {}
    THEN LET n == LexMax(restore_backup_candidates(ents))
             e == CHOOSE x \in ents : x.name = n
         IN  [ok |-> e.isDir /\ WwwFile \in e.files,
              why |-> IF e.isDir /\ WwwFile \in e.files THEN "none" ELSE "restore.partial",
              name |-> n, isDir |-> e.isDir, files |-> IF e.isDir THEN e.files ELSE {}]
    ELSE [ok |-> FALSE, why |-> "restore.path", name |-> <<>>, isDir |-> FALSE, files |-> {}]

\* setup.py:426-441  path validation and selection of the record
restore_backup_resolve(ents, root, p) ==
    IF NoPathGiven(p)
    THEN IF ~root
         THEN [ok |-> FALSE, why |-> "restore.root", name |-> <<>>, isDir |-> FALSE, files |-> {}]
         ELSE IF restore_backup_candidates(ents) = {}
         THEN [ok |-> FALSE, why |-> "restore.empty", name |-> <<>>, isDir |-> FALSE, files |-> {}]
         ELSE LET n == LexMax(restore_backup_candidates(ents))
                  e == CHOOSE x \in ents : x.name = n
              IN  [ok |-> TRUE, why |-> "none", name |-> n, isDir |-> e.isDir,
                   files |-> IF e.isDir THEN e.files ELSE {}]
    ELSE IF ~p.isDir
         THEN [ok |-> FALSE, why |-> "restore.path", name |-> <<>>, isDir |-> FALSE, files |-> {}]
         ELSE [ok |-> TRUE, why |-> "none", name |-> <<>>, isDir |-> TRUE, files |-> p.files]

\* the content archive unpacked only inside the branch that loads the dump
restore_backup_trace_nested(files) ==
    <<"rs.stop_mysql", "rs.stop_apache">>
    \o Opt(DumpFile \in files,
           <<"rs.start_mysql", "rs.load">> \o Opt(WwwFile \in files, <<"rs.tar_www">>))
    \o Opt(SslFile \in files, <<"rs.tar_ssl">>)
    \o <<"rs.restart_mysql", "rs.restart_apache">>

\* the database restarted as soon as the dump is loaded
restore_backup_trace_early_restart(files) ==
    <<"rs.stop_mysql", "rs.stop_apache">>
    \o Opt(DumpFile \in files, <<"rs.start_mysql", "rs.load">>)
    \o <<"rs.restart_mysql">>
    \o Opt(WwwFile \in files, <<"rs.tar_www">>)
    \o Opt(SslFile \in files, <<"rs.tar_ssl">>)
    \o <<"rs.restart_apache">>

\* the database started whether or not the record holds a dump
restore_backup_trace_always_start(files) ==
    <<"rs.stop_mysql", "rs.stop_apache", "rs.start_mysql">>
    \o Opt(DumpFile \in files, <<"rs.load">>)
    \o Opt(WwwFile \in files, <<"rs.tar_www">>)
    \o Opt(SslFile \in files, <<"rs.tar_ssl">>)
    \o <<"rs.restart_mysql", "rs.restart_apache">>

\* setup.py:449-493  the container a command of the restore starts ("" when
\* it starts none): podman start / podman restart
restore_backup_starts(s) ==
    CASE s \in {"rs.start_mysql", "rs.restart_mysql"} -> "mysql_server"
      [] s = "rs.restart_apache" -> "apache2_server"
      [] OTHER -> ""

\* setup.py:448-493  the commands of a restore from a record holding files
restore_backup_trace(files) ==
    <<"rs.stop_mysql", "rs.stop_apache">>
    \o Opt(DumpFile \in files, <<"rs.start_mysql", "rs.load">>)
    \o Opt(WwwFile \in files, <<"rs.tar_www">>)
    \o Opt(SslFile \in files, <<"rs.tar_ssl">>)
    \o <<"rs.restart_mysql", "rs.restart_apache">>

-----------------------------------------------------------------------------
(* install_ubuntu_vm.py: the sites each function issues.                   *)

vbox_check_vboxmanage_trace == <<"vb.version">>

vbox_create_vm_trace(F) ==
    <<"vb.showvminfo">> \o Opt("vb.showvminfo" \notin F, <<"vb.unregistervm">>)
    \o <<"vb.createvm", "vb.modifyvm">>

\* cfg: the showvminfo output has a CfgFile= line that yields a VM folder
vbox_create_storage_trace(cfg) ==
    <<"vb.cfgfile">>
    \o Opt(cfg, <<"vb.storagectl", "vb.createmedium", "vb.attach_hdd", "vb.attach_iso">>)

vbox_enable_unattended_install_trace == <<"vb.unattended">>

vbox_enable_autostart_trace == <<"vb.autostart_on", "vb.autostart_delay">>

vbox_start_vm_trace == <<"vb.startvm">>

-----------------------------------------------------------------------------
(* install_ubuntu_hyperv.py: the sites each function issues.               *)

hyperv_check_admin_trace == <<"hv.isadmin">>

\* enabled: the feature query printed "Enabled"; yes: the user's answer
hyperv_check_hyperv_trace(F, enabled, yes) ==
    <<"hv.getfeature">>
    \o Opt(("hv.getfeature" \in F \/ ~enabled) /\ yes, <<"hv.enablefeature">>)

\* named: the VM name occurs in the output of Get-VM
hyperv_create_vm_trace(F, named) ==
    <<"hv.getvm">>
    \o Opt("hv.getvm" \notin F /\ named, <<"hv.stopvm", "hv.removevm">>)
    \o <<"hv.newvm", "hv.setvm_cpu", "hv.setvm_checkpoint", "hv.nested">>

hyperv_create_storage_trace ==
    <<"hv.newvhd", "hv.addscsi", "hv.addhdd", "hv.adddvd", "hv.bootorder", "hv.secureboot">>

\* named: the switch name occurs in the output of Get-VMSwitch;
\* adapter: Get-NetAdapter printed a non-blank adapter name
hyperv_create_network_switch_trace(F, named, adapter) ==
    <<"hv.getswitch">>
    \o Opt("hv.getswitch" \in F \/ ~named,
           <<"hv.getadapter">>
           \o (IF "hv.getadapter" \notin F /\ adapter THEN <<"hv.newswitch_ext">>
                                                       ELSE <<"hv.newswitch_int">>))
    \o <<"hv.addadapter">>

\* (variant: the console is opened but the VM is not started)
hyperv_start_vm_trace_console_only == <<"hv.vmconnect">>

\* install_ubuntu_hyperv.py:172-180
hyperv_start_vm_trace == <<"hv.startvm", "hv.vmconnect">>

-----------------------------------------------------------------------------
(* Running a function: the log, the failed set and the position in main.   *)

\* sites whose exit code the modelled host state decides
DeterminedSites == {"ap.cron_l", "bk.cron_l"}

\* the number of freely failing commands stays within the bound
Budget(baseFailed, F, S0) ==
    Cardinality((baseFailed \cup F) \ DeterminedSites) + Cardinality(S0) <= MaxFail

\* sys.exit(code) inside the check or function named where
SysExit(code, where) == pc' = "done" /\ exitCode' = code /\ stopAt' = where

\* The function issued trace tr with failing sites F on top of the log
\* baseLog.  An error raised out of a runner ends the process with a
\* traceback (exit code 1); otherwise control moves on to npc, and ec is the
\* exit code there (-1: still running).
Advance(tr, F, baseLog, baseFailed, npc, ec) ==
    /\ log' = baseLog \o Issued(tr, F)
    /\ failed' = baseFailed \cup (F \cap Range(Issued(tr, F)))
    /\ IF Aborted(tr, F)
       THEN SysExit(1, "raised")
       ELSE pc' = npc /\ exitCode' = ec /\ stopAt' = "none"

\* The containers and VMs the scripts create, by name.  podman and
\* VirtualBox keep names unique: creating on a taken name is refused and
\* changes nothing.  Hyper-V tells VMs apart by id, so New-VM on a taken name
\* adds a second VM of that name.
ResourceNames == {"mysql_server", "apache2_server", "phpmyadmin", "vbox_vm", "hyperv_vm"}

NoResources == [n \in ResourceNames |-> 0]

\* the name a removing / creating site acts on ("" for every other site)
Removes(s) ==
    CASE s = "my.rm" -> "mysql_server"
      [] s = "ap.rm" -> "apache2_server"
      [] s = "pma.rm" -> "phpmyadmin"
      [] s = "vb.unregistervm" -> "vbox_vm"
      [] s = "hv.removevm" -> "hyperv_vm"
      [] OTHER -> ""

Creates(s) ==
    CASE s = "my.run" -> "mysql_server"
      [] s \in {"ap.run_ssl", "ap.run_http"} -> "apache2_server"
      [] s = "pma.run" -> "phpmyadmin"
      [] s = "vb.createvm" -> "vbox_vm"
      [] s = "hv.newvm" -> "hyperv_vm"
      [] OTHER -> ""

\* the effect of one issued command on the resources; a failed command has none
CommandEffect(r, s, F) ==
    IF s \in F THEN r
    ELSE IF Removes(s) # "" THEN [r EXCEPT ![Removes(s)] = 0]
    ELSE IF Creates(s) = "hyperv_vm" THEN [r EXCEPT !["hyperv_vm"] = @ + 1]
    ELSE IF Creates(s) # "" /\ r[Creates(s)] = 0 THEN [r EXCEPT ![Creates(s)] = 1]
    ELSE r

RECURSIVE Effects(_, _, _)
Effects(r, tr, F) ==
    IF tr = <<>> THEN r ELSE Effects(CommandEffect(r, Head(tr), F), Tail(tr), F)

\* the resources after the commands issued on top of baseLog
ResAfter(baseLog) == Effects(res, SubSeq(log', Len(baseLog) + 1, Len(log')), failed')

NoRestore == [kind |-> "none", isDir |-> FALSE, files |-> {}]

NoReturn == [runner |-> "none", rc |-> 0, out |-> "", err |-> "", check |-> FALSE,
             result |-> [success |-> FALSE, stdout |-> "", stderr |-> "", raised |-> FALSE]]

RestoreFiles == {DumpFile, WwwFile, SslFile}

RestoreArgs ==
    {Latest, EmptyPath, Explicit(FALSE, {})} \cup {Explicit(TRUE, fs) : fs \in SUBSET RestoreFiles}

Domains == {"", "example.org"}

NoReport == [ran |-> <<>>, failing |-> {}, own |-> {}, name |-> <<>>, certs |-> FALSE,
             before |-> {}, removed |-> {}, at |-> 0]

NoRestoreReport == [ok |-> FALSE, why |-> "none", name |-> <<>>, isDir |-> FALSE,
                    files |-> {}, kind |-> "none"]

HostEnv == [root |-> TRUE, tool |-> TRUE, iso |-> TRUE, admin |-> TRUE,
            hyperv |-> TRUE, yes |-> TRUE]

NoArgs == [restore |-> NoRestore, domain |-> "", no_start |-> FALSE, manual |-> FALSE]

NoLocals == [has_ssl |-> FALSE, unattended |-> FALSE, vm_folder |-> FALSE]

NoCalls == [runs |-> 0, installs |-> 0, ssl |-> 0, apache |-> 0, backup |-> 0]

Bump(c, f) == [c EXCEPT ![f] = @ + 1]

-----------------------------------------------------------------------------
(* setup.py: function bodies.  Each is used by the step of main() that     *)
(* calls the function and by the specifications that call it directly.     *)

\* setup.py:416-500  restore_backup(backup_path)
restore_backup_body(p, baseLog, baseFailed, npc, ec) ==
    \E r \in {restore_backup_resolve(entries, rootExists, p)} :
        /\ rs' = [ok |-> r.ok, why |-> r.why, name |-> r.name, isDir |-> r.isDir,
                  files |-> r.files, kind |-> p.kind]
        /\ calls' = calls
        /\ IF ~r.ok
           THEN /\ SysExit(1, r.why)
                /\ log' = baseLog /\ failed' = baseFailed
           ELSE \E tr \in {restore_backup_trace(r.files)} :
                \E F \in FailSets(RestoreSites \ PopenSites) :
                   /\ Budget(baseFailed, F, {})
                   /\ F \subseteq Range(tr)
                   /\ Advance(tr, F, baseLog, baseFailed, npc, ec)
        /\ UNCHANGED <<ret, res, cron, cron0, now, ticks, rootExists, entries, bk>>

\* setup.py:175-252  setup_apache(network_name, apache_container, domain, email);
\* Sites: the commands that are tried with a non-zero exit code
setup_apache_body(domain, Sites, baseLog, baseFailed, npc) ==
    \E live \in BOOLEAN :
    \E F0 \in FailSets(Sites \ (PopenSites \cup DeterminedSites)) :
        LET F   == F0 \cup (IF crontab_l(cron).success THEN {} ELSE {"ap.cron_l"})
            tr  == setup_apache_trace(domain, F, live)
            iss == Issued(tr, F)
        IN  /\ Budget(baseFailed, F0, {})
            /\ F0 \subseteq Range(tr)
            /\ (domain = "" => live)
            /\ cron' = IF "ap.cron_w" \in Range(iss)
                       THEN crontab_write(setup_apache_new_cron(cron, domain))
                       ELSE cron
            /\ loc' = [loc EXCEPT !.has_ssl = ~Aborted(tr, F)
                                               /\ setup_apache_has_ssl(domain, F, live)]
            /\ calls' = Bump(calls, "apache")
            /\ Advance(tr, F, baseLog, baseFailed, npc, -1)
            /\ res' = ResAfter(baseLog)
            /\ UNCHANGED <<ret, cron0, now, ticks, rootExists, entries, bk, rs>>

\* setup.py:285-364  setup_backup(mysql_container, mysql_root_password);
\* Fails: the sets of failing steps the initial run of the backup script is
\* tried with.  /opt/podman-backups is created first (os.makedirs).
setup_backup_body(Fails, baseLog, baseFailed, npc) ==
    \E F0 \in FailSets({"bk.chmod"}) :
    \E S0 \in Fails :
    \E certs \in BOOLEAN :
        LET F   == F0 \cup (IF crontab_l(cron).success THEN {} ELSE {"bk.cron_l"})
            tr  == setup_backup_trace(cron)
            iss == Issued(tr, F)
            ran == "bk.run" \in Range(iss)
        IN  /\ Budget(baseFailed, F0, S0)
            /\ (script = "setup" => certs)
            /\ cron' = IF "bk.cron_w" \in Range(iss)
                       THEN crontab_write(setup_backup_new_cron(cron))
                       ELSE cron
            /\ rootExists' = TRUE
            /\ \E b \in {backup_script(entries, TRUE, now, S0, certs, FALSE)} :
                  /\ entries' = IF ran THEN b.entries ELSE entries
                  /\ bk' = IF ran THEN b.report ELSE bk
            /\ calls' = Bump(calls, "backup")
            /\ Advance(tr, F, baseLog, baseFailed, npc, -1)
            /\ UNCHANGED <<ret, res, cron0, now, ticks, rs, loc>>

-----------------------------------------------------------------------------
(* setup.py: main().                                                       *)

\* a step of main() that only runs commands: Tr(F) is what it issues
CommandStep(here, Sites, Tr(_), npc) ==
    /\ pc = here
    /\ \E F \in FailSets(Sites \ PopenSites) :
          /\ Budget(failed, F, {})
          /\ F \subseteq Range(Tr(F))
          /\ Advance(Tr(F), F, log, failed, npc, -1)

\* The process of a finished run ends: what the run held in memory is gone,
\* the host keeps its state.
process_exit ==
    /\ pc = "done"
    /\ pc' = "idle"
    /\ log' = <<>> /\ failed' = {} /\ exitCode' = -1 /\ stopAt' = "none"
    /\ steps' = <<>>
    /\ loc' = NoLocals /\ args' = NoArgs /\ env' = HostEnv
    /\ UNCHANGED <<hostVars, script>>

\* setup.py:502-507  the script is started with its arguments parsed.  The
\* three scripts act on disjoint parts of a host (schedule, backup root and
\* containers; the VirtualBox VM; the Hyper-V VM), so a host is modelled as
\* running one of them, any number of times.
main_start ==
    /\ pc = "idle"
    /\ script \in {"none", "setup"}
    /\ calls.runs < MaxCalls
    /\ \E root \in BOOLEAN, dom \in Domains, p \in {NoRestore} \cup RestoreArgs :
          /\ env' = [HostEnv EXCEPT !.root = root]
          /\ args' = [NoArgs EXCEPT !.restore = p, !.domain = dom]
    /\ script' = "setup"
    /\ pc' = "check_root"
    /\ log' = <<>> /\ failed' = {} /\ exitCode' = -1 /\ stopAt' = "none"
    /\ steps' = <<>>
    /\ loc' = NoLocals
    /\ rs' = NoRestoreReport /\ bk' = NoReport
    /\ calls' = Bump(calls, "runs")
    /\ UNCHANGED <<ret, res, cron, cron0, now, ticks, rootExists, entries>>

\* setup.py:19-23, 509-518  check_root, then the choice of mode
check_root ==
    /\ script = "setup"
    /\ steps' = Append(steps, "check_root")
    /\ pc = "check_root"
    /\ IF ~env.root THEN SysExit(1, "check_root")
       ELSE /\ pc' = IF args.restore.kind # "none" THEN "restore_backup"
                                                   ELSE "check_install_podman"
            /\ UNCHANGED <<exitCode, stopAt>>
    /\ UNCHANGED <<hostVars, script, args, env, log, failed, loc>>

\* (variant: main does not return after the restore and goes on to install)
restore_backup_then_install ==
    /\ script = "setup"
    /\ steps' = Append(steps, "restore_backup")
    /\ pc = "restore_backup"
    /\ restore_backup_body(args.restore, log, failed, "check_install_podman", -1)
    /\ UNCHANGED <<script, args, env, loc>>

\* setup.py:513-518  restore mode: restore_backup, then main returns
restore_backup ==
    /\ script = "setup"
    /\ steps' = Append(steps, "restore_backup")
    /\ pc = "restore_backup"
    /\ restore_backup_body(args.restore, log, failed, "done", 0)
    /\ UNCHANGED <<script, args, env, loc>>

check_install_podman ==
    /\ script = "setup"
    /\ steps' = Append(steps, "check_install_podman")
    /\ CommandStep("check_install_podman", PodmanSites, check_install_podman_trace,
                   "install_certbot")
    /\ UNCHANGED <<hostVars, script, args, env, loc>>

install_certbot ==
    /\ script = "setup"
    /\ steps' = Append(steps, "install_certbot")
    /\ CommandStep("install_certbot", CertbotSites,
                   LAMBDA F : install_certbot_trace(args.domain, F), "enable_podman_socket")
    /\ UNCHANGED <<hostVars, script, args, env, loc>>

enable_podman_socket ==
    /\ script = "setup"
    /\ steps' = Append(steps, "enable_podman_socket")
    /\ CommandStep("enable_podman_socket", SocketSites,
                   LAMBDA F : enable_podman_socket_trace, "create_network")
    /\ UNCHANGED <<hostVars, script, args, env, loc>>

create_network ==
    /\ script = "setup"
    /\ steps' = Append(steps, "create_network")
    /\ CommandStep("create_network", NetworkSites, create_network_trace, "setup_mysql")
    /\ UNCHANGED <<hostVars, script, args, env, loc>>

setup_mysql ==
    /\ script = "setup"
    /\ steps' = Append(steps, "setup_mysql")
    /\ CommandStep("setup_mysql", MysqlSites, LAMBDA F : setup_mysql_trace, "setup_apache")
    /\ res' = ResAfter(log)
    /\ UNCHANGED <<hostButRes, script, args, env, loc>>

setup_apache ==
    /\ script = "setup"
    /\ steps' = Append(steps, "setup_apache")
    /\ pc = "setup_apache"
    /\ setup_apache_body(args.domain, ApacheSites, log, failed, "setup_phpmyadmin")
    /\ UNCHANGED <<script, args, env>>

setup_phpmyadmin ==
    /\ script = "setup"
    /\ steps' = Append(steps, "setup_phpmyadmin")
    /\ CommandStep("setup_phpmyadmin", PmaSites, LAMBDA F : setup_phpmyadmin_trace,
                   "setup_backup")
    /\ res' = ResAfter(log)
    /\ UNCHANGED <<hostButRes, script, args, env, loc>>

setup_backup ==
    /\ script = "setup"
    /\ steps' = Append(steps, "setup_backup")
    /\ pc = "setup_backup"
    /\ setup_backup_body(StepFailures, log, failed, "print_summary")
    /\ UNCHANGED <<script, args, env>>

\* setup.py:545  print_summary, then main returns: exit code 0
print_summary ==
    /\ script = "setup"
    /\ steps' = Append(steps, "print_summary")
    /\ pc = "print_summary"
    /\ pc' = "done" /\ exitCode' = 0
    /\ calls' = [calls EXCEPT !.installs = @ + 1,
                              !.ssl = @ + (IF loc.has_ssl THEN 1 ELSE 0)]
    /\ UNCHANGED <<ret, res, cron, cron0, now, ticks, rootExists, entries, bk, rs,
                   script, args, env, log, failed, stopAt, loc>>

\* the schedules the host may start with
EmptySchedules == {NoCrontab, crontab_write(<<Blank>>)}

InitRun ==
    /\ script = "none" /\ pc = "idle"
    /\ args = NoArgs /\ env = HostEnv
    /\ log = <<>> /\ failed = {} /\ exitCode = -1 /\ stopAt = "none"
    /\ steps = <<>>
    /\ loc = NoLocals

InitHost(Schedules, Times, Roots) ==
    /\ cron0 \in Schedules /\ cron = cron0
    /\ calls = NoCalls
    /\ now \in Times /\ ticks = 0
    /\ \E r \in Roots : rootExists = r.exists /\ entries = r.entries
    /\ bk = NoReport /\ rs = NoRestoreReport
    /\ res = NoResources
    /\ ret = NoReturn

NoRoot == [exists |-> FALSE, entries |-> {}]

Init == InitHost(EmptySchedules, {0}, {NoRoot}) /\ InitRun

Next ==
    \/ process_exit
    \/ main_start
    \/ check_root
    \/ restore_backup
    \/ check_install_podman
    \/ install_certbot
    \/ enable_podman_socket
    \/ create_network
    \/ setup_mysql
    \/ setup_apache
    \/ setup_phpmyadmin
    \/ setup_backup
    \/ print_summary

\* setup.py run up to MaxCalls times on one host
Spec == Init /\ [][Next]_vars

-----------------------------------------------------------------------------
(* install_ubuntu_vm.py: main().                                           *)

\* install_ubuntu_vm.py:248-278
vbox_main_start ==
    /\ pc = "idle"
    /\ script \in {"none", "vbox"}
    /\ calls.runs < MaxCalls
    /\ \E tool \in BOOLEAN, iso \in BOOLEAN, ns \in BOOLEAN, mi \in BOOLEAN :
          /\ env' = [HostEnv EXCEPT !.tool = tool, !.iso = iso]
          /\ args' = [NoArgs EXCEPT !.no_start = ns, !.manual = mi]
    /\ script' = "vbox"
    /\ pc' = "check_vboxmanage"
    /\ log' = <<>> /\ failed' = {} /\ exitCode' = -1 /\ stopAt' = "none"
    /\ steps' = <<>>
    /\ loc' = NoLocals
    /\ rs' = NoRestoreReport /\ bk' = NoReport
    /\ calls' = Bump(calls, "runs")
    /\ UNCHANGED <<ret, res, cron, cron0, now, ticks, rootExists, entries>>

\* install_ubuntu_vm.py:21-35  a missing VBoxManage is exit code 127 of the shell
vbox_check_vboxmanage ==
    /\ script = "vbox" /\ pc = "check_vboxmanage"
    /\ steps' = Append(steps, "check_vboxmanage")
    /\ \E F \in FailSets({"vb.version"}) :
          /\ (~env.tool => "vb.version" \in F)
          /\ Budget(failed, IF env.tool THEN F ELSE {}, {})
          /\ log' = log \o Issued(vbox_check_vboxmanage_trace, F)
          /\ failed' = failed \cup F
          /\ IF Aborted(vbox_check_vboxmanage_trace, F) THEN SysExit(1, "raised")
             ELSE IF ~vbox_run_command(Rc("vb.version", F), FALSE).success
             THEN SysExit(1, "check_vboxmanage")
             ELSE pc' = "download_ubuntu_iso" /\ UNCHANGED <<exitCode, stopAt>>
    /\ UNCHANGED <<hostVars, script, args, env, loc>>

\* the ISO check that only warns
vbox_download_ubuntu_iso_warn_only ==
    /\ script = "vbox" /\ pc = "download_ubuntu_iso"
    /\ steps' = Append(steps, "download_ubuntu_iso")
    /\ pc' = "create_vm"
    /\ UNCHANGED <<hostVars, script, args, env, log, failed, exitCode, stopAt, loc>>

\* install_ubuntu_vm.py:37-50
vbox_download_ubuntu_iso ==
    /\ script = "vbox" /\ pc = "download_ubuntu_iso"
    /\ steps' = Append(steps, "download_ubuntu_iso")
    /\ IF env.iso THEN pc' = "create_vm" /\ UNCHANGED <<exitCode, stopAt>>
                  ELSE SysExit(1, "download_ubuntu_iso")
    /\ UNCHANGED <<hostVars, script, args, env, log, failed, loc>>

\* install_ubuntu_vm.py:52-89
vbox_create_vm ==
    /\ script = "vbox"
    /\ steps' = Append(steps, "create_vm")
    /\ CommandStep("create_vm", {"vb.showvminfo", "vb.unregistervm", "vb.createvm", "vb.modifyvm"},
                   vbox_create_vm_trace, "create_storage")
    /\ res' = ResAfter(log)
    /\ UNCHANGED <<hostButRes, script, args, env, loc>>

\* install_ubuntu_vm.py:91-149  sys.exit(1) when no VM folder is found
vbox_create_storage ==
    /\ script = "vbox" /\ pc = "create_storage"
    /\ steps' = Append(steps, "create_storage")
    /\ \E cfg \in BOOLEAN :
       \E F \in FailSets({"vb.cfgfile", "vb.storagectl", "vb.createmedium", "vb.attach_hdd",
                        "vb.attach_iso"}) :
          /\ Budget(failed, F, {})
          /\ F \subseteq Range(vbox_create_storage_trace(cfg))
          /\ log' = log \o Issued(vbox_create_storage_trace(cfg), F)
          /\ failed' = failed \cup (F \cap Range(Issued(vbox_create_storage_trace(cfg), F)))
          /\ IF Aborted(vbox_create_storage_trace(cfg), F) THEN SysExit(1, "raised")
             ELSE IF ~cfg THEN SysExit(1, "create_storage")
             ELSE pc' = "enable_unattended_install" /\ UNCHANGED <<exitCode, stopAt>>
          /\ loc' = [loc EXCEPT !.vm_folder = cfg]
    /\ UNCHANGED <<hostVars, script, args, env>>

\* install_ubuntu_vm.py:293-298, 151-175  skipped with --manual-install
vbox_enable_unattended_install ==
    /\ script = "vbox" /\ pc = "enable_unattended_install"
    /\ IF args.manual
       THEN /\ pc' = "enable_autostart"
            /\ UNCHANGED <<log, failed, exitCode, stopAt, steps, loc>>
       ELSE /\ steps' = Append(steps, "enable_unattended_install")
            /\ \E F \in FailSets({"vb.unattended"}) :
                  /\ Budget(failed, F, {})
                  /\ Advance(vbox_enable_unattended_install_trace, F, log, failed,
                             "enable_autostart", -1)
                  /\ loc' = [loc EXCEPT !.unattended =
                                vbox_run_command(Rc("vb.unattended", F), FALSE).success]
    /\ UNCHANGED <<hostVars, script, args, env>>

\* install_ubuntu_vm.py:177-184
vbox_enable_autostart ==
    /\ script = "vbox"
    /\ steps' = Append(steps, "enable_autostart")
    /\ CommandStep("enable_autostart", {"vb.autostart_on", "vb.autostart_delay"},
                   LAMBDA F : vbox_enable_autostart_trace, "start_vm")
    /\ UNCHANGED <<hostVars, script, args, env, loc>>

\* install_ubuntu_vm.py:303-307, 186-196  skipped with --no-start
vbox_start_vm ==
    /\ script = "vbox" /\ pc = "start_vm"
    /\ IF args.no_start
       THEN /\ pc' = "print_summary"
            /\ UNCHANGED <<log, failed, exitCode, stopAt, steps>>
       ELSE /\ steps' = Append(steps, "start_vm")
            /\ \E F \in FailSets({"vb.startvm"}) :
                  /\ Budget(failed, F, {})
                  /\ Advance(vbox_start_vm_trace, F, log, failed, "print_summary", -1)
    /\ UNCHANGED <<hostVars, script, args, env, loc>>

\* install_ubuntu_vm.py:309-313  print_summary, then main returns
vbox_print_summary ==
    /\ script = "vbox" /\ pc = "print_summary"
    /\ steps' = Append(steps, "print_summary")
    /\ pc' = "done" /\ exitCode' = 0
    /\ UNCHANGED <<hostVars, script, args, env, log, failed, stopAt, loc>>

-----------------------------------------------------------------------------
(* install_ubuntu_hyperv.py: main().                                       *)

\* install_ubuntu_hyperv.py:223-247
hyperv_main_start ==
    /\ pc = "idle"
    /\ script \in {"none", "hyperv"}
    /\ calls.runs < MaxCalls
    /\ \E admin \in BOOLEAN, hv \in BOOLEAN, yes \in BOOLEAN, iso \in BOOLEAN, ns \in BOOLEAN :
          /\ env' = [HostEnv EXCEPT !.admin = admin, !.hyperv = hv, !.yes = yes, !.iso = iso]
          /\ args' = [NoArgs EXCEPT !.no_start = ns]
    /\ script' = "hyperv"
    /\ pc' = "check_admin"
    /\ log' = <<>> /\ failed' = {} /\ exitCode' = -1 /\ stopAt' = "none"
    /\ steps' = <<>>
    /\ loc' = NoLocals
    /\ rs' = NoRestoreReport /\ bk' = NoReport
    /\ calls' = Bump(calls, "runs")
    /\ UNCHANGED <<ret, res, cron, cron0, now, ticks, rootExists, entries>>

\* install_ubuntu_hyperv.py:27-39  the query prints "False" for a non-administrator
hyperv_check_admin ==
    /\ script = "hyperv" /\ pc = "check_admin"
    /\ steps' = Append(steps, "check_admin")
    /\ \E F \in FailSets({"hv.isadmin"}) :
          /\ Budget(failed, F, {})
          /\ log' = log \o Issued(hyperv_check_admin_trace, F)
          /\ failed' = failed \cup F
          /\ IF Aborted(hyperv_check_admin_trace, F) THEN SysExit(1, "raised")
             ELSE IF ~hyperv_run_command(Rc("hv.isadmin", F), TRUE).success \/ ~env.admin
             THEN SysExit(1, "check_admin")
             ELSE pc' = "check_hyperv" /\ UNCHANGED <<exitCode, stopAt>>
    /\ UNCHANGED <<hostVars, script, args, env, loc>>

\* install_ubuntu_hyperv.py:41-63  the query prints "Enabled" when the feature is on;
\* otherwise the user is asked, and the script ends either way
hyperv_check_hyperv ==
    /\ script = "hyperv" /\ pc = "check_hyperv"
    /\ steps' = Append(steps, "check_hyperv")
    /\ \E F \in FailSets({"hv.getfeature", "hv.enablefeature"}) :
          LET tr  == hyperv_check_hyperv_trace(F, env.hyperv, env.yes)
              off == ~hyperv_run_command(Rc("hv.getfeature", F), FALSE).success \/ ~env.hyperv
          IN  /\ Budget(failed, F, {})
              /\ F \subseteq Range(tr)
              /\ log' = log \o Issued(tr, F)
              /\ failed' = failed \cup (F \cap Range(Issued(tr, F)))
              /\ IF Aborted(tr, F) THEN SysExit(1, "raised")
                 ELSE IF off /\ ~env.yes THEN SysExit(1, "check_hyperv")
                 ELSE IF off THEN SysExit(0, "check_hyperv")
                 ELSE pc' = "download_ubuntu_iso" /\ UNCHANGED <<exitCode, stopAt>>
    /\ UNCHANGED <<hostVars, script, args, env, loc>>

\* install_ubuntu_hyperv.py:65-78
hyperv_download_ubuntu_iso ==
    /\ script = "hyperv" /\ pc = "download_ubuntu_iso"
    /\ steps' = Append(steps, "download_ubuntu_iso")
    /\ IF env.iso THEN pc' = "create_vm" /\ UNCHANGED <<exitCode, stopAt>>
                  ELSE SysExit(1, "download_ubuntu_iso")
    /\ UNCHANGED <<hostVars, script, args, env, log, failed, loc>>

\* install_ubuntu_hyperv.py:80-109
hyperv_create_vm ==
    /\ script = "hyperv" /\ pc = "create_vm"
    /\ steps' = Append(steps, "create_vm")
    /\ \E named \in BOOLEAN :
       \E F \in FailSets({"hv.getvm", "hv.stopvm", "hv.removevm", "hv.newvm", "hv.setvm_cpu",
                        "hv.setvm_checkpoint", "hv.nested"}) :
          /\ Budget(failed, F, {})
          /\ F \subseteq Range(hyperv_create_vm_trace(F, named))
          /\ ("hv.getvm" \in F => named)
          /\ Advance(hyperv_create_vm_trace(F, named), F, log, failed, "create_storage", -1)
    /\ res' = ResAfter(log)
    /\ UNCHANGED <<hostButRes, script, args, env, loc>>

\* install_ubuntu_hyperv.py:111-139
hyperv_create_storage ==
    /\ script = "hyperv"
    /\ steps' = Append(steps, "create_storage")
    /\ CommandStep("create_storage",
                   {"hv.newvhd", "hv.addscsi", "hv.addhdd", "hv.adddvd", "hv.bootorder",
                    "hv.secureboot"},
                   LAMBDA F : hyperv_create_storage_trace, "create_network_switch")
    /\ UNCHANGED <<hostVars, script, args, env, loc>>

\* install_ubuntu_hyperv.py:141-170
hyperv_create_network_switch ==
    /\ script = "hyperv" /\ pc = "create_network_switch"
    /\ steps' = Append(steps, "create_network_switch")
    /\ \E named \in BOOLEAN, adapter \in BOOLEAN :
       \E F \in FailSets({"hv.getswitch", "hv.getadapter", "hv.newswitch_ext", "hv.newswitch_int",
                        "hv.addadapter"}) :
          /\ Budget(failed, F, {})
          /\ F \subseteq Range(hyperv_create_network_switch_trace(F, named, adapter))
          /\ Advance(hyperv_create_network_switch_trace(F, named, adapter), F, log, failed,
                     "start_vm", -1)
    /\ UNCHANGED <<hostVars, script, args, env, loc>>

\* install_ubuntu_hyperv.py:265-269, 172-180  skipped with --no-start
hyperv_start_vm ==
    /\ script = "hyperv" /\ pc = "start_vm"
    /\ IF args.no_start
       THEN /\ pc' = "print_summary"
            /\ UNCHANGED <<log, failed, exitCode, stopAt, steps>>
       ELSE /\ steps' = Append(steps, "start_vm")
            /\ \E F \in FailSets({"hv.startvm", "hv.vmconnect"}) :
                  /\ Budget(failed, F, {})
                  /\ Advance(hyperv_start_vm_trace, F, log, failed, "print_summary", -1)
    /\ UNCHANGED <<hostVars, script, args, env, loc>>

\* install_ubuntu_hyperv.py:271-272  print_summary, then main returns
hyperv_print_summary ==
    /\ script = "hyperv" /\ pc = "print_summary"
    /\ steps' = Append(steps, "print_summary")
    /\ pc' = "done" /\ exitCode' = 0
    /\ UNCHANGED <<hostVars, script, args, env, log, failed, stopAt, loc>>

InitVM == InitHost({NoCrontab}, {0}, {NoRoot}) /\ InitRun

NextVM ==
    \/ process_exit
    \/ vbox_main_start
    \/ vbox_check_vboxmanage
    \/ vbox_download_ubuntu_iso
    \/ vbox_create_vm
    \/ vbox_create_storage
    \/ vbox_enable_unattended_install
    \/ vbox_enable_autostart
    \/ vbox_start_vm
    \/ vbox_print_summary
    \/ hyperv_main_start
    \/ hyperv_check_admin
    \/ hyperv_check_hyperv
    \/ hyperv_download_ubuntu_iso
    \/ hyperv_create_vm
    \/ hyperv_create_storage
    \/ hyperv_create_network_switch
    \/ hyperv_start_vm
    \/ hyperv_print_summary

\* either VM script, run up to MaxCalls times on a host
SpecVM == InitVM /\ [][NextVM]_vars

-----------------------------------------------------------------------------
(* The functions called directly, outside main(): the cron job or an       *)
(* administrator runs the backup script, time passes, functions of         *)
(* setup.py are applied to a host in any order.                            *)

\* the clock moves by half a day or by ten days
TickSteps == {1, 10 * TicksPerDay}

tick ==
    /\ pc = "idle"
    /\ ticks < MaxTicks
    /\ \E d \in TickSteps : now' = now + d
    /\ ticks' = ticks + 1
    /\ UNCHANGED <<ret, res, cron, cron0, calls, rootExists, entries, bk, rs, runVars>>

ScriptRecords(ents) == {e \in ents : e.by = "script"}

\* /usr/local/bin/podman-lamp-backup.sh runs (cron job or by hand).
\* Fails: the sets of failing steps tried; Certs: the states of
\* /opt/apache-ssl/certs tried.
run_backup_script(Fails, Certs) ==
    /\ pc = "idle"
    /\ \/ Cardinality(ScriptRecords(entries)) < MaxRecords
       \/ \E e \in entries : e.name = BackupName(now)
    /\ \E S0 \in Fails, certs \in Certs, left \in BOOLEAN :
          LET b == backup_script(entries, rootExists, now, S0, certs, left)
          IN  /\ Budget({}, {}, S0)
              /\ (left => S0 \cap {"www", "ssl"} # {})
              /\ entries' = b.entries
              /\ rootExists' = b.root
              /\ bk' = b.report
    /\ UNCHANGED <<ret, res, cron, cron0, calls, now, ticks, rs, runVars>>

\* restore_backup(path) as its own process: exit code 0 when it returns
call_restore_backup(Paths) ==
    /\ pc = "idle"
    /\ \E p \in Paths : restore_backup_body(p, <<>>, {}, "done", 0)
    /\ UNCHANGED <<script, args, env, steps, loc>>

call_setup_apache ==
    /\ pc = "idle" /\ calls.apache < MaxCalls
    /\ \E dom \in Domains : setup_apache_body(dom, {"ssl.certbot"}, <<>>, {}, "idle")
    /\ UNCHANGED <<script, args, env, steps>>

call_setup_backup ==
    /\ pc = "idle" /\ calls.backup < MaxCalls
    /\ setup_backup_body({{}}, <<>>, {}, "idle")
    /\ UNCHANGED <<script, args, env, steps>>

\* entries of the backup root that the backup script did not make
ForeignDir(t) ==
    [name |-> BackupPrefix \o <<111, 108, 100>>, isDir |-> TRUE, mtime |-> t, born |-> t,
     files |-> {WwwFile}, by |-> "other"]

ForeignFile(t) ==
    [name |-> BackupPrefix \o <<110, 111, 116, 101, 115>>, isDir |-> FALSE, mtime |-> t,
     born |-> t, files |-> {}, by |-> "other"]

Root(ents) == [exists |-> TRUE, entries |-> ents]

\* 2025-12-20 00:00:00
StartTime == (366 + 353) * TicksPerDay

CronAlphabet == {Blank, OtherJob, NoteLine, ProbeJob, renewal_cmd("example.org")}

\* every schedule of at most MaxCronLen lines, and no schedule at all
Schedules == {NoCrontab} \cup
             {crontab_write(t) : t \in UNION {[1..k -> CronAlphabet] : k \in 1..MaxCronLen}}

-----------------------------------------------------------------------------
(* SpecCron: the two schedule installers applied to any host schedule.     *)

InitCron == InitHost(Schedules, {0}, {NoRoot}) /\ InitRun

NextCron ==
    \/ call_setup_apache
    \/ call_setup_backup

SpecCron == InitCron /\ [][NextCron]_vars

-----------------------------------------------------------------------------
(* SpecBackup: the backup script over time, and restore of the latest.     *)

backup_job == run_backup_script({{}}, {TRUE})

restore_latest == call_restore_backup({Latest})

InitBackup ==
    InitHost({NoCrontab}, {StartTime}, {NoRoot, Root({ForeignDir(StartTime)})}) /\ InitRun

NextBackup ==
    \/ tick
    \/ backup_job
    \/ restore_latest

SpecBackup == InitBackup /\ [][NextBackup]_vars

-----------------------------------------------------------------------------
(* SpecSteps: one backup run and one restore with every combination of     *)
(* failing steps and present files, the clock standing still.              *)

backup_run == run_backup_script(StepFailures, BOOLEAN)

restore_any == call_restore_backup(RestoreArgs)

InitSteps ==
    InitHost({NoCrontab}, {StartTime},
             {NoRoot, Root({}), Root({ForeignDir(StartTime)}), Root({ForeignFile(StartTime)})})
    /\ InitRun

NextSteps ==
    \/ backup_run
    \/ restore_any

SpecSteps == InitSteps /\ [][NextSteps]_vars

-----------------------------------------------------------------------------
(* SpecAll: any of the three scripts, run up to MaxCalls times on a host.   *)

NextAll == Next \/ NextVM

SpecAll == Init /\ [][NextAll]_vars

-----------------------------------------------------------------------------
(* SpecPartial: the backup script can be killed in the middle of a run.    *)

\* The script at time t is killed after its first k steps (k >= 1: the
\* record directory exists).  open: the shell had already opened the output
\* file of step k + 1.  Steps that ran leave their files; find did not run.
backup_script_killed(ents, t, certs, k, open) ==
    LET st    == backup_script_steps(certs)
        done  == Range(SubSeq(st, 1, k)) \cap ArtifactSteps
        next  == IF open /\ st[k + 1] \in ArtifactSteps THEN {st[k + 1]} ELSE {}
        rec   == [name |-> BackupName(t), isDir |-> TRUE, mtime |-> t, born |-> t,
                  files |-> {StepFile(s) : s \in done \cup next}, by |-> "killed"]
    IN  ents \cup {rec}

\* a run of the backup script that is interrupted (signal, reboot, full disk)
kill_backup_script ==
    /\ pc = "idle"
    /\ \A e \in entries : e.by # "killed" /\ e.name # BackupName(now)
    /\ \E certs \in BOOLEAN, open \in BOOLEAN :
       \E k \in 1..(Len(backup_script_steps(certs)) - 1) :
          /\ entries' = backup_script_killed(entries, now, certs, k, open)
          /\ rootExists' = TRUE
    /\ UNCHANGED <<ret, res, cron, cron0, calls, now, ticks, bk, rs, runVars>>

\* restore of the latest record, every command of it succeeding
restore_latest_clean ==
    /\ restore_latest
    /\ failed' = {}

InitPartial == InitHost({NoCrontab}, {StartTime}, {NoRoot, Root({})}) /\ InitRun

NextPartial ==
    \/ tick
    \/ backup_job
    \/ kill_backup_script
    \/ restore_latest_clean

SpecPartial == InitPartial /\ [][NextPartial]_vars

-----------------------------------------------------------------------------------------------------------------------------------------------------
(* SpecRunner: the three command runners called directly, with every exit  *)
(* code, output and value of the check flag.                               *)

\* exit codes of a launched command (127: the shell did not find it)
ExitCodes == {0, 1, 2, 127}

\* what the command wrote to a stream
Outputs == {"", "text", "warning: text"}

Runners == {"setup", "vbox", "hyperv"}

RunnerReturns(runner, rc, out, err, check) ==
    CASE runner = "vbox"   -> vbox_run_command_returns(rc, out, err, check)
      [] runner = "hyperv" -> hyperv_run_command_returns(rc, out, err, check)
      [] OTHER             -> run_command_returns(rc, out, err, check)

\* the success flag and the raise the steps of the runner's script act on
RunnerOutcome(runner, rc, check) ==
    CASE runner = "vbox"   -> vbox_run_command(rc, check)
      [] runner = "hyperv" -> hyperv_run_command(rc, check)
      [] OTHER             -> run_command(rc, check)

call_run_command ==
    /\ pc = "idle"
    /\ \E runner \in Runners, rc \in ExitCodes, out \in Outputs, err \in Outputs,
          check \in BOOLEAN :
          ret' = [runner |-> runner, rc |-> rc, out |-> out, err |-> err, check |-> check,
                  result |-> RunnerReturns(runner, rc, out, err, check)]
    /\ UNCHANGED <<res, cron, cron0, calls, now, ticks, rootExists, entries, bk, rs, runVars>>

InitRunner == InitHost({NoCrontab}, {0}, {NoRoot}) /\ InitRun

NextRunner == call_run_command

SpecRunner == InitRunner /\ [][NextRunner]_vars

-----------------------------------------------------------------------------
(* SpecRetention: backup runs in which the creation of the record or the   *)
(* cleanup may fail, days passing between them, and restores of the        *)
(* latest record.                                                          *)

backup_retention_run == run_backup_script(FailSets({"mkdir", "find"}), {TRUE})

NextRetention ==
    \/ tick
    \/ backup_retention_run
    \/ restore_latest_clean

SpecRetention == InitBackup /\ [][NextRetention]_vars

-----
(* Claims.                                                                 *)

\* C1: starting from a schedule that does not mention the backup script,
\* after n >= 1 calls of setup_backup the schedule holds exactly one entry
\* that invokes the backup script, and the second and every later call
\* leaves the schedule as it is.
C1_IdempotentInstall ==
    /\ []((~Mentions(cron0.lines) /\ calls.backup >= 1) => BackupEntries(cron) = 1)
    /\ [][(~Mentions(cron0.lines) /\ calls.backup >= 1 /\ calls'.backup = calls.backup + 1)
            => cron' = cron]_vars

\* a second call of setup_backup has run on a host whose schedule had lines
\* of its own, none of them about the backup script
C1_Witness ==
    /\ cron0.exists /\ Len(cron0.lines) >= 2 /\ ~Mentions(cron0.lines)
    /\ calls.backup >= 2
    /\ BackupEntries(cron) = 1

\* the age of entry e at time t exceeds / stays below n days
OlderThanDays(e, t, n)   == t - e.mtime > n * TicksPerDay
YoungerThanDays(e, t, n) == t - e.mtime < n * TicksPerDay

\* the backup_* directories the last run of the backup script found
RecordsBefore == {e \in bk.before : e.isDir /\ StartsWith(e.name, BackupPrefix)}

\* C2: on every run of the backup script, each backup_* directory older
\* than the 30-day retention window is deleted by that run and each one
\* younger than the window is kept.
C2_Retention ==
    \A e \in RecordsBefore :
        /\ OlderThanDays(e, bk.at, RETENTION_DAYS) => e \in bk.removed
        /\ YoungerThanDays(e, bk.at, RETENTION_DAYS) => e \notin bk.removed

\* every backup_* entry of the backup root is a record the backup script made
OnlyScriptRecords == \A e \in entries : StartsWith(e.name, BackupPrefix) => e.by = "script"

\* the entry a restore of the latest record selected
Selected == {e \in entries : e.name = rs.name}

\* C3: the names of the records the backup script made at distinct times are
\* ordered lexicographically exactly as their creation times are, and a
\* restore without a path argument selects the most recently created one.
C3_NamesFollowTime ==
    /\ \A a, b \in ScriptRecords(entries) : (a.born < b.born) <=> LexLess(a.name, b.name)
    /\ (pc = "done" /\ rs.ok /\ rs.kind = "latest" /\ OnlyScriptRecords)
          => /\ Selected # {}
             /\ \A e \in Selected : \A x \in ScriptRecords(entries) : x.born <= e.born

\* two records made in different years, and the later one restored
C3_Witness ==
    /\ pc = "done" /\ rs.ok /\ rs.kind = "latest" /\ OnlyScriptRecords
    /\ \E a, b \in ScriptRecords(entries) :
          /\ LocalTime(a.born).year < LocalTime(b.born).year
          /\ LocalTime(a.born).day > LocalTime(b.born).day
          /\ rs.name = b.name

\* the commands of the last restore that were issued, among those listed
IssuedOf(sites) == SelectSeq(sites, LAMBDA s : s \in Range(log))

RestoreEnded == pc = "done" /\ rs.ok

\* C4: a restore restores each of the dump, the content archive and the
\* certificate archive exactly when its own file is in the record, whatever
\* the other two, and runs to its end (both restarts, exit code 0).
C4_PartialRestore ==
    RestoreEnded =>
        /\ ({"rs.start_mysql", "rs.load"} \subseteq Range(log)) <=> (DumpFile \in rs.files)
        /\ ({"rs.start_mysql", "rs.load"} \cap Range(log) # {}) <=> (DumpFile \in rs.files)
        /\ ("rs.tar_www" \in Range(log)) <=> (WwwFile \in rs.files)
        /\ ("rs.tar_ssl" \in Range(log)) <=> (SslFile \in rs.files)
        /\ exitCode = 0
        /\ log # <<>> /\ log[Len(log)] = "rs.restart_apache"

\* a record without the dump whose content archive is unpacked
C4_Witness ==
    /\ RestoreEnded
    /\ DumpFile \notin rs.files /\ WwwFile \in rs.files
    /\ "rs.load" \notin Range(log) /\ "rs.tar_www" \in Range(log)
    /\ exitCode = 0

\* C5: a restore that passed path validation issues: stop database, stop
\* content server; start database, load dump; unpack content archive; unpack
\* certificate archive; restart database, restart content server -- the
\* middle steps only for the files present, nothing else and in this order.
C5_RestoreOrder ==
    RestoreEnded =>
        log = <<"rs.stop_mysql", "rs.stop_apache">>
              \o IssuedOf(<<"rs.start_mysql", "rs.load", "rs.tar_www", "rs.tar_ssl">>)
              \o <<"rs.restart_mysql", "rs.restart_apache">>

\* a restore of a complete record: all eight commands
C5_Witness ==
    /\ RestoreEnded
    /\ rs.files = RestoreFiles
    /\ Len(log) = 8 /\ log[3] = "rs.start_mysql" /\ log[7] = "rs.restart_mysql"

\* C6: whenever a command run with check=True returned non-zero, the script
\* has terminated with a non-zero exit code and that command is the last
\* one it issued (no later step was executed).
C6_FatalFlagTerminates ==
    \A s \in failed \cap FatalSites :
        /\ pc = "done"
        /\ exitCode >= 1
        /\ log[Len(log)] = s

\* the run got past the prerequisite checks of its script
PrereqPassed ==
    CASE script = "setup"  -> \/ "check_install_podman" \in Range(steps)
                              \/ ("restore_backup" \in Range(steps) /\ rs.ok)
      [] script = "vbox"   -> "create_vm" \in Range(steps)
      [] script = "hyperv" -> "create_vm" \in Range(steps)
      [] OTHER             -> FALSE

\* the checks and steps of a complete run of the script, for its arguments
AllSteps ==
    CASE script = "setup" /\ args.restore.kind # "none" -> <<"check_root", "restore_backup">>
      [] script = "setup" /\ args.restore.kind = "none" ->
            <<"check_root", "check_install_podman", "install_certbot", "enable_podman_socket",
              "create_network", "setup_mysql", "setup_apache", "setup_phpmyadmin",
              "setup_backup", "print_summary">>
      [] script = "vbox" ->
            <<"check_vboxmanage", "download_ubuntu_iso", "create_vm", "create_storage">>
            \o Opt(~args.manual, <<"enable_unattended_install">>)
            \o <<"enable_autostart">>
            \o Opt(~args.no_start, <<"start_vm">>)
            \o <<"print_summary">>
      [] script = "hyperv" ->
            <<"check_admin", "check_hyperv", "download_ubuntu_iso", "create_vm",
              "create_storage", "create_network_switch">>
            \o Opt(~args.no_start, <<"start_vm">>)
            \o <<"print_summary">>
      [] OTHER -> <<>>

RanToEnd == exitCode = 0 /\ stopAt = "none" /\ steps = AllSteps

NoVmFolderExit ==
    /\ script = "vbox" /\ stopAt = "create_storage"
    /\ ~loc.vm_folder
    /\ exitCode = 1
    /\ log[Len(log)] = "vb.cfgfile"
    /\ steps = SubSeq(AllSteps, 1, 4)

PrereqChecks == {"check_root", "check_vboxmanage", "check_admin", "download_ubuntu_iso"}

\* C8: a failing prerequisite check (root, VBoxManage, administrator, ISO
\* file) ends the run at that check with exit code 1, and no command that
\* creates, modifies or removes a VM, container, network, backup or schedule
\* entry was issued before.
C8_PrereqFailure ==
    /\ stopAt \in PrereqChecks =>
          /\ pc = "done" /\ exitCode = 1
          /\ Range(log) \cap MutatingSites = {}
    /\ pc = "done" =>
          /\ (script = "setup" /\ ~env.root) => stopAt = "check_root"
          /\ (script = "vbox" /\ ~env.tool) => stopAt = "check_vboxmanage"
          /\ (script = "vbox" /\ ~env.iso) => stopAt \in {"check_vboxmanage", "download_ubuntu_iso"}
          /\ (script = "hyperv" /\ ~env.admin) => stopAt = "check_admin"
          /\ (script = "hyperv" /\ ~env.iso) =>
                stopAt \in {"check_admin", "check_hyperv", "download_ubuntu_iso"}

\* the Hyper-V script stopped at the ISO check after its queries succeeded
C8_Witness ==
    /\ script = "hyperv" /\ pc = "done"
    /\ ~env.iso /\ stopAt = "download_ubuntu_iso"
    /\ exitCode = 1
    /\ log # <<>>

\* the record the last run of the backup script wrote into
RunRecord == {e \in bk.before : e.name = bk.name}

\* C9: in a run of the backup script every step is executed -- dump,
\* content archive, certificate archive, the three snapshots and the
\* retention cleanup -- whichever of them fail, and each step that does not
\* fail leaves its file in the record.
C9_StepsIndependent ==
    bk.ran # <<>> =>
        /\ bk.ran = backup_script_steps(bk.certs)
        /\ \A s \in (Range(bk.ran) \cap ArtifactSteps) \ bk.failing :
              \A e \in RunRecord : StepFile(s) \in e.files

\* the dump failed; the content archive was still written and cleanup ran
C9_Witness ==
    /\ bk.own = {"dump"} /\ bk.failing = {"dump"}
    /\ {"www", "cfg_mysql", "find"} \subseteq Range(bk.ran)
    /\ \E e \in RunRecord : WwwFile \in e.files

\* every complete install so far had a domain and obtained its certificate
OnlySslInstalls == calls.installs >= 1 /\ calls.ssl = calls.installs

\* C10: after n >= 1 complete installs with a domain and a certificate, from
\* an empty schedule, the schedule holds exactly one backup entry and exactly
\* one renewal entry.
C10_TwoEntries ==
    (pc = "done" /\ OnlySslInstalls) =>
        /\ BackupEntries(cron) = 1
        /\ RenewalEntries(cron) = 1


\* the lines of schedule a are the first lines of schedule b, unaltered
KeepsLines(a, b) ==
    a.exists => /\ b.exists
                /\ Len(a.lines) <= Len(b.lines)
                /\ SubSeq(b.lines, 1, Len(a.lines)) = a.lines

\* C11: registering the renewal or the backup job only appends: the lines
\* the schedule held before are still there, unaltered and in order; the
\* backup registration keeps a renewal entry registered before it; and when
\* the schedule already mentions the backup script it is not rewritten.
C11_AppendOnly ==
    /\ [](KeepsLines(cron0, cron))
    /\ [][/\ KeepsLines(cron, cron')
          /\ Len(cron'.lines) <= Len(cron.lines) + 1
          /\ RenewalEntries(cron') >= RenewalEntries(cron)
          /\ (calls'.backup = calls.backup + 1 /\ BackupEntries(cron) >= 1)
                => (cron' = cron /\ "bk.cron_w" \notin Range(log'))]_vars

\* an unrelated job, then the renewal entry, then the backup entry
C11_Witness ==
    /\ cron0.exists /\ cron0.lines = <<OtherJob>>
    /\ cron.lines = <<OtherJob, renewal_cmd("example.org"), backup_cron>>
    /\ calls.apache >= 1 /\ calls.backup >= 1

\* C12: a restore without a path selects a directory: an entry of the backup
\* root named backup_* that is not a directory is never the selected record.
C12_LatestIsDirectory ==
    (rs.kind = "latest" /\ rs.ok) =>
        /\ rs.isDir
        /\ \A e \in Selected : e.isDir

\* the record of an interrupted backup run that sorts after every other
\* backup_* entry of the backup root
GreatestPartial ==
    {e \in entries : /\ e.by = "killed"
                     /\ \A x \in entries : StartsWith(x.name, BackupPrefix)
                                             => (x = e \/ LexLess(x.name, e.name))}

\* C13: nothing marks a record as complete: when the record of an
\* interrupted backup run is the lexicographically greatest, a restore
\* without a path selects it and goes through (stops and restarts the
\* services, restores the files that happen to be there, exit code 0).
C13_PartialRecordRestored ==
    (pc = "done" /\ rs.kind = "latest") =>
        \A e \in GreatestPartial :
            /\ rs.ok /\ rs.name = e.name /\ rs.files = e.files
            /\ exitCode = 0
            /\ log = restore_backup_trace(e.files)
            /\ SubSeq(log, 1, 2) = <<"rs.stop_mysql", "rs.stop_apache">>
            /\ SubSeq(log, Len(log) - 1, Len(log)) = <<"rs.restart_mysql", "rs.restart_apache">>

\* an older complete record and a newer one that holds only a dump file
C13_Witness ==
    /\ pc = "done" /\ rs.kind = "latest" /\ rs.ok
    /\ \E e \in GreatestPartial : rs.name = e.name /\ e.files = {DumpFile}
    /\ \E x \in ScriptRecords(entries) : {DumpFile, WwwFile} \subseteq x.files
    /\ "rs.load" \in Range(log) /\ "rs.tar_www" \notin Range(log)

\* setup_apache of the current run of setup.py has returned
AfterApache == script = "setup" /\ pc \in {"setup_phpmyadmin", "setup_backup", "print_summary"}

\* how often the current run issued the command of site s
Times(s) == Count(log, LAMBDA x : x = s)

\* obtain_ssl_certificate returned True: certbot succeeded and the
\* certificate files were copied
CertificateObtained ==
    /\ "ssl.certbot" \in Range(log) \ failed
    /\ {"ssl.cp_chain", "ssl.cp_key", "ssl.chmod"} \subseteq Range(log)

\* C14: a run of setup_apache issues exactly one podman run for the content
\* server: the SSL variant iff a domain was given and the certificate was
\* obtained, else the HTTP-only variant; has_ssl is true exactly in the SSL
\* case and only then is the renewal entry appended to the schedule.
C14_OneApacheVariant ==
    AfterApache =>
        /\ Times("ap.run_ssl") + Times("ap.run_http") = 1
        /\ (Times("ap.run_ssl") = 1) <=> (args.domain # "" /\ CertificateObtained)
        /\ loc.has_ssl <=> (Times("ap.run_ssl") = 1)
        /\ ("ap.cron_w" \in Range(log)) <=> (Times("ap.run_ssl") = 1)
        /\ RenewalEntries(cron) = calls.ssl + (IF Times("ap.run_ssl") = 1 THEN 1 ELSE 0)

\* a domain was given, certbot failed, the HTTP-only container was created
C14_Witness ==
    /\ AfterApache
    /\ args.domain # "" /\ "ssl.certbot" \in failed
    /\ Times("ap.run_http") = 1 /\ Times("ap.run_ssl") = 0
    /\ ~loc.has_ssl /\ RenewalEntries(cron) = 0

\* the sites that stop and remove the resource named n
RemovalSites(n) ==
    CASE n = "mysql_server" -> {"my.stop", "my.rm"}
      [] n = "apache2_server" -> {"ap.stop", "ap.rm"}
      [] n = "phpmyadmin" -> {"pma.stop", "pma.rm"}
      [] n = "vbox_vm" -> {"vb.unregistervm"}
      [] n = "hyperv_vm" -> {"hv.stopvm", "hv.removevm"}

ContainerNames == {"mysql_server", "apache2_server", "phpmyadmin"}

\* in the log lg, every stop / remove command of the name that c creates
\* comes before c; a container is always stopped and removed first, a VM
\* after the query that looks for it
CreatedAfterRemoval(lg, c) ==
    LET n == Creates(c)
    IN  /\ \A x \in RemovalSites(n) : x \in Range(lg) => Before(lg, x, c)
        /\ n \in ContainerNames => RemovalSites(n) \subseteq Range(lg)
        /\ n = "vbox_vm" => Before(lg, "vb.showvminfo", c)
        /\ n = "hyperv_vm" => Before(lg, "hv.getvm", c)

\* the commands the step being taken issues
StepIssued == SubSeq(log', Len(log) + 1, Len(log'))

\* the step removes what exists of name n, or nothing of that name exists
Removed(n) == res[n] = 0 \/ \E x \in Range(StepIssued) \ failed' : Removes(x) = n

\* C15: in every script the command that creates a named container or VM is
\* issued only after the commands that stop and remove an existing one of the
\* same name, and when the removal and the creation succeed the step leaves
\* exactly one resource of that name, on the first run and on every re-run.
C15_OneResourcePerName ==
    [][\A c \in Range(StepIssued) :
          Creates(c) # "" =>
              /\ CreatedAfterRemoval(log', c)
              /\ Removed(Creates(c)) /\ c \notin failed' => res'[Creates(c)] = 1]_vars

\* C15 witness: a second complete install, no command failed, ends with one
\* container of each name
C15_Witness ==
    /\ script = "setup" /\ pc = "done" /\ calls.installs = 2 /\ failed = {}
    /\ {"my.rm", "my.run", "ap.rm", "pma.rm", "pma.run"} \subseteq Range(log)
    /\ \A n \in ContainerNames : res[n] = 1

\* the input of the last restore is unusable: a path that is not an existing
\* directory or, with no path, a missing root or a root without backup_* entry
UnusableInput ==
    \/ rs.kind = "explicit" /\ ~rs.isDir
    \/ rs.kind = "empty"
    \/ rs.kind = "latest" /\ (~rootExists \/ restore_backup_candidates(entries) = {})

\* C16: a restore whose input is unusable exits with code 1 before it stops
\* any service: no container is stopped, started or restarted and nothing is
\* unpacked.
C16_UnusableInputExits ==
    (pc = "done" /\ rs.kind # "none" /\ UnusableInput) => (exitCode = 1 /\ log = <<>>)

\* the positions of the log strictly between the initial stop of both
\* services and the first of the final restarts
RestoreInterval ==
    LET first == IndexOf(log, "rs.stop_apache")
        last  == IF "rs.restart_mysql" \in Range(log) THEN IndexOf(log, "rs.restart_mysql")
                                                       ELSE Len(log) + 1
    IN  {i \in DOMAIN log : first < i /\ i < last}

\* C17: between the initial stop of both services and the final restarts a
\* restore issues no command that starts the content server; the only
\* command in that interval that starts a service is the start of the
\* database, and it is issued only when the record holds the dump file.
C17_OnlyDatabaseStarted ==
    RestoreEnded =>
        /\ Before(log, "rs.stop_mysql", "rs.stop_apache")
        /\ \A i \in RestoreInterval :
              /\ restore_backup_starts(log[i]) # "apache2_server"
              /\ restore_backup_starts(log[i]) # "" =>
                     (log[i] = "rs.start_mysql" /\ DumpFile \in rs.files)
        /\ "rs.start_mysql" \in Range(log) => DumpFile \in rs.files

\* C17 witness: a restore from a record with dump and content archive starts
\* the database, loads the dump and unpacks the content before the restarts
C17_Witness ==
    /\ RestoreEnded /\ {DumpFile, WwwFile} \subseteq rs.files
    /\ {"rs.start_mysql", "rs.load", "rs.tar_www", "rs.restart_apache"} \subseteq Range(log)
    /\ RestoreInterval # {}

\* the command that starts the VM, and the commands that create the VM,
\* attach its storage and (VirtualBox) configure autostart or (Hyper-V)
\* connect it to the switch
StartCommand == IF script = "vbox" THEN "vb.startvm" ELSE "hv.startvm"

BeforeStart ==
    IF script = "vbox"
    THEN {"vb.createvm", "vb.storagectl", "vb.createmedium", "vb.attach_hdd", "vb.attach_iso",
          "vb.autostart_on", "vb.autostart_delay"}
    ELSE {"hv.newvm", "hv.newvhd", "hv.addhdd", "hv.adddvd", "hv.addadapter"}

\* C18: in both VM scripts the start command is never issued when --no-start
\* is given; otherwise it is issued at most once, only after the VM is
\* created, its storage attached and the network connected (Hyper-V) or
\* autostart configured (VirtualBox), and before the summary, and a run that
\* reaches the summary has issued it exactly once.
C18_StartOnceUnlessNoStart ==
    script \in {"vbox", "hyperv"} =>
        /\ args.no_start => (StartCommand \notin Range(log) /\ "start_vm" \notin Range(steps))
        /\ Times(StartCommand) <= 1
        /\ StartCommand \in Range(log) =>
              /\ \A x \in BeforeStart : Before(log, x, StartCommand)
              /\ Before(steps, "start_vm", "print_summary")
        /\ ("print_summary" \in Range(steps) /\ ~args.no_start) => Times(StartCommand) = 1

\* C18 witness: a Hyper-V run without --no-start has started the VM and
\* printed the summary
C18_Witness ==
    /\ script = "hyperv" /\ pc = "done" /\ ~args.no_start
    /\ "hv.startvm" \in Range(log) /\ "print_summary" \in Range(steps)

\* the run is (after the step: will be) a run of setup.py in restore mode
RestoreMode == script = "setup" /\ args.restore.kind # "none"

IsPrefix(s, u) == Len(s) <= Len(u) /\ s = SubSeq(u, 1, Len(s))

\* C19: in a run of setup.py in restore mode the privilege check runs first
\* and no provisioning step runs: the only functions called are check_root
\* and restore_backup, the only commands issued are those of the restore (no
\* package install, no network or container creation or removal), no
\* backup is taken and the host schedule is not changed.
C19_RestoreModeOnlyRestores ==
    [][RestoreMode' =>
          /\ IsPrefix(steps', <<"check_root", "restore_backup">>)
          /\ Range(log') \subseteq RestoreSites
          /\ UNCHANGED <<cron, rootExists, entries, res>>
          /\ calls'.installs = calls.installs /\ calls'.backup = calls.backup
          /\ calls'.apache = calls.apache]_vars

\* C19 witness: on a host set up by an earlier run, a run in restore mode has
\* passed the privilege check and restored the latest record
C19_Witness ==
    /\ RestoreMode /\ pc = "done" /\ rs.ok /\ calls.installs >= 1
    /\ steps = <<"check_root", "restore_backup">>
    /\ "rs.restart_apache" \in Range(log)
    /\ cron.exists /\ entries # {} /\ res["mysql_server"] = 1

\* what the runner of the last call returns for the same command and exit
\* code when the check flag has the value c
ReturnedWith(c) == RunnerReturns(ret.runner, ret.rc, ret.out, ret.err, c)

\* C20: in all three runners the check flag has no effect on what the caller
\* sees: for every launched command and every exit code the call returns
\* the same (success, stdout, stderr) with check=True as with check=False,
\* success is true exactly when the exit code is 0, the two streams are what
\* the command wrote, and no exception leaves the runner; the steps of the
\* scripts act on this same success flag.
C20_CheckFlagHasNoEffect ==
    ret.runner # "none" =>
        /\ ret.result = ReturnedWith(ret.check)
        /\ ReturnedWith(TRUE) = ReturnedWith(FALSE)
        /\ ret.result.success <=> (ret.rc = 0)
        /\ ret.result.stdout = ret.out /\ ret.result.stderr = ret.err
        /\ ~ret.result.raised
        /\ RunnerOutcome(ret.runner, ret.rc, ret.check)
               = [success |-> ret.result.success, raised |-> ret.result.raised]

\* C20 witness: a command called with check=True exits with a non-zero code
\* and the call returns (False, stdout, stderr)
C20_Witness ==
    /\ ret.runner = "hyperv" /\ ret.check /\ ret.rc = 2 /\ ret.out = "text"
    /\ ~ret.result.success /\ ret.result.stdout = "text" /\ ~ret.result.raised

\* the record the last run of the backup script made (none: the empty set)
LastRunRecord == {e \in bk.before : e.name = bk.name /\ e.isDir /\ e.by = "script"}

\* C21: the retention cleanup of a backup run never deletes the record the
\* same run has made: after every run the record of the last run is in the
\* backup root (whenever its mkdir succeeded there is one), so the root holds
\* at least one record and a restore with no path finds one.
C21_NewRecordKept ==
    bk.ran # <<>> =>
        /\ "mkdir" \notin bk.failing => LastRunRecord # {}
        /\ LastRunRecord \cap bk.removed = {}
        /\ LastRunRecord \subseteq entries
        /\ LastRunRecord # {} =>
              /\ rootExists /\ restore_backup_candidates(entries) # {}
              /\ restore_backup_resolve(entries, rootExists, Latest).ok
              /\ (pc = "done" /\ rs.kind = "latest") => rs.ok

\* C21 witness: a run has removed an old record and kept its own, and the
\* restore that follows finds it
C21_Witness ==
    /\ bk.ran # <<>> /\ bk.removed # {} /\ LastRunRecord # {}
    /\ LastRunRecord \subseteq entries
    /\ pc = "done" /\ rs.kind = "latest" /\ rs.ok /\ rs.name = bk.name

\* the lines of schedule c whose text contains the script's file name
NamingLines(c) == Count(c.lines, LAMBDA line : ScriptName \in Range(line))

\* the step is a call of setup_backup
BackupInstalled == calls'.backup = calls.backup + 1

\* C22: setup_backup decides by the occurrence of the script's file name
\* anywhere in the schedule text: when the schedule it finds names the script
\* in any line (a comment, a disabled line, another command) it leaves the
\* schedule unchanged, so the number of lines naming the script does not
\* grow; only when no line names it does it append its entry.
C22_SubstringTest ==
    [][BackupInstalled =>
          /\ (cron.exists /\ NamingLines(cron) >= 1) =>
                 (cron' = cron /\ NamingLines(cron') <= NamingLines(cron))
          /\ (cron.exists /\ NamingLines(cron) = 0) =>
                 (cron'.lines = Append(cron.lines, backup_cron)
                  /\ BackupEntries(cron') = BackupEntries(cron) + 1)
          /\ ~cron.exists => cron' = crontab_write(<<backup_cron>>)]_vars

\* C22 witness: setup_backup has run on a schedule that names the script only
\* in a comment or in another command, and the schedule still holds no
\* active backup entry
C22_Witness ==
    /\ calls.backup >= 1 /\ cron0.exists /\ NamingLines(cron0) >= 1
    /\ cron = cron0 /\ BackupEntries(cron) = 0
    /\ \E i \in DOMAIN cron.lines : cron.lines[i] = ProbeJob
=============================================================================
